---------------------------- MODULE Spec2Model ----------------------------
(***************************************************************************)
(* Model of the simulated camera of microscope.testsuite.devices           *)
(* (TestCamera and the part of _ImageGenerator.get_image that decides      *)
(* whether a fetch delivers a frame).                                      *)
(*                                                                         *)
(* The camera object is the record cam, the image generator the record     *)
(* gen.  Every method of the source is an operator from the object before  *)
(* the call to an outcome [state, result, frame]: the object after the     *)
(* call, what the call returned or raised, and the frame it returned.      *)
(* Every action of Next is one call of a method by the host.               *)
(***************************************************************************)
EXTENDS Integers, Sequences, FiniteSets, TLC

VARIABLES
    cam,        \* the TestCamera object's fields
    gen,        \* the _ImageGenerator object's fields
    lastOp,     \* the method the host called last
    arg,        \* the argument of that call
    result,     \* what that call returned ("None", "True", "frame") or raised
    frame,      \* the frame that call returned, NoFrame otherwise
    scn,        \* history: progress through enable, triggers, disable, enable, fetch
    delivered,  \* history: the frames returned since the camera was last armed
    accepted,   \* history: the triggers accepted while acquiring, in all
    returned,   \* history: the frames returned, in all
    thr,        \* the threads calling _fetch_data: where each is in it
    img,        \* what the last direct call of get_image returned or raised
    nsaw,       \* history: the calls of the sawtooth strategy so far
    stage,      \* the axes of the TestStage object, NoStage before it is made
    lightsource \* the TestLightSource object's fields

vars == <<cam, gen, lastOp, arg, result, frame, scn, delivered,
          accepted, returned, thr, img, nsaw, stage, lightsource>>

-----------------------------------------------------------------------------
(* Bounds of the model *)

MaxTriggered == 3
MaxSent == 3
MaxAccepted == 3
(* sawtooth calls where the pixels are looked at *)
MaxPhase == 2
(* sawtooth calls where the phase is followed: one full turn and a call more *)
MaxCalls == 101

(* Inputs the host may pass *)

RoiSizes == {7, 512}
BinFactors == {1, 2}
ErrorPercents == {0, 50, 100}
(* The members of microscope.TriggerType and microscope.TriggerMode *)
TriggerTypes == {"SOFTWARE", "RISING_EDGE", "FALLING_EDGE", "PULSE"}
TriggerModes == {"ONCE", "BULB", "STROBE", "START"}

ROI(left, top, width, height) ==
    [left |-> left, top |-> top, width |-> width, height |-> height]

Binning(h, v) == [h |-> h, v |-> v]

RoiInputs == {ROI(0, 0, w, h) : w \in RoiSizes, h \in RoiSizes}
BinningInputs == {Binning(h, v) : h \in BinFactors, v \in BinFactors}

NoFrame == [index |-> -1, width |-> -1, height |-> -1]

(* The threads that call _fetch_data in the concurrent specification *)
Threads == {"t1", "t2"}

(* A thread outside _fetch_data; got is the frame it returned last since   *)
(* the camera was armed, aborted whether an abort() came during its sleep. *)
IdleThread ==
    [pc |-> "idle", image |-> NoFrame, got |-> NoFrame, aborted |-> FALSE]
NoArg == <<>>

-----------------------------------------------------------------------------
(* Outcomes of a call *)

Return(c, r) == [state |-> c, result |-> r, frame |-> NoFrame]

Raise(c, e) == [state |-> c, result |-> e, frame |-> NoFrame]

Errors == {"DisabledDeviceError", "DeviceError", "UnsupportedFeatureError",
           "ValueError"}

-----------------------------------------------------------------------------
(* _ImageGenerator: the shape of the image and the frame-number overlay *)

FontCharWidth == 6
FontHeight == 11

RECURSIVE Digits(_)
Digits(n) == IF n < 10 THEN 1 ELSE 1 + Digits(n \div 10)

(* size = tuple(d + 2 for d in font.getsize("%d" % index)): <<width, height>> *)
text_size(index) == <<FontCharWidth * Digits(index) + 2, FontHeight + 2>>

Min(a, b) == IF a < b THEN a ELSE b

(* data[0:size[1], 0:size[0]] = img: the slice is clipped to the data, the  *)
(* image is not, and the assignment raises ValueError unless both have the *)
(* same shape.                                                             *)
overlay_fits(width, height, size) ==
    /\ Min(height, size[2]) = size[2]
    /\ Min(width, size[1]) = size[1]

(* get_image as _fetch_data calls it (index is always given): the array of *)
(* shape (height, width), or the ValueError of the overlay.                *)
get_image(g, width, height, index) ==
    IF g.numbering /\ ~overlay_fits(width, height, text_size(index))
    THEN [raised |-> TRUE, data |-> NoFrame]
    ELSE [raised |-> FALSE,
          data |-> [index |-> index, width |-> width, height |-> height]]

enable_numbering(g, enab) == [g EXCEPT !.numbering = enab]

-----------------------------------------------------------------------------
(* _ImageGenerator: the strategies and the pixels of the image             *)
(*                                                                         *)
(* An array is kept as the description of how its pixels were made, and    *)
(* Intensity gives the pixel at (x, y) from it: the integer part of the    *)
(* value the strategy computes, nan where it divides zero by zero, and     *)
(* unknown where the value needs the sine and cosine of the phase.         *)

Methods == <<"noise", "gradient", "sawtooth", "one_gaussian", "black", "white">>

DataTypes == <<"uint8", "uint16", "float">>

(* index=None *)
NoIndex == -1

(* th = (th + 0.01 * TWOPI) % TWOPI: the phase in steps of 0.01 * TWOPI *)
ThetaSteps == 100

method(g) == g.method_index

set_method(g, index) == [g EXCEPT !.method_index = index]

data_type(g) == g.datatype_index

set_data_type(g, index) == [g EXCEPT !.datatype_index = index]

(* Mutation: the phase is yielded and never advanced *)
_theta_generator_stuck(g) == [th |-> g.theta, gen |-> g]

(* next(self._theta): the phase yielded and the generator advanced *)
_theta_generator(g) ==
    [th |-> g.theta, gen |-> [g EXCEPT !.theta = (@ + 1) % ThetaSteps]]

Array(kind, w, h, dark, light, p) ==
    [raised |-> "", kind |-> kind, w |-> w, h |-> h,
     dark |-> dark, light |-> light, p |-> p]

Failed(e) ==
    [raised |-> e, kind |-> "", w |-> 0, h |-> 0, dark |-> 0, light |-> 0,
     p |-> <<>>]

(* np.iinfo(d).max *)
iinfo_max(d) == IF d = "uint8" THEN 255 ELSE 65535

(* Mutation: black filled with dark instead of zeros *)
black_dark(w, h, dark, light) == Array("const", w, h, dark, light, <<dark>>)

black(w, h, dark, light) == Array("const", w, h, dark, light, <<0>>)

white(g, w, h, dark, light) ==
    LET d == DataTypes[g.datatype_index + 1]
    IN Array("const", w, h, dark, light,
             <<IF d \in {"uint8", "uint16"} THEN iinfo_max(d) ELSE 1>>)

gradient(w, h, dark, light) == Array("gradient", w, h, dark, light, <<>>)

(* np.random.randint(dark, light, size=(h, w)) raises ValueError unless    *)
(* dark < light; v is the sample drawn, here the same for every pixel.     *)
noise(w, h, dark, light, v) ==
    IF dark >= light THEN Failed("ValueError: low >= high")
    ELSE Array("noise", w, h, dark, light, <<v>>)

(* x0, y0: the centre drawn *)
one_gaussian(w, h, dark, light, x0, y0) ==
    Array("one_gaussian", w, h, dark, light, <<x0, y0>>)

sawtooth(th, w, h, dark, light) == Array("sawtooth", w, h, dark, light, <<th>>)

Max(a, b) == IF a > b THEN a ELSE b

Known(v) == [known |-> TRUE, nan |-> FALSE, v |-> v]
Nan == [known |-> TRUE, nan |-> TRUE, v |-> 0]
Unknown == [known |-> FALSE, nan |-> FALSE, v |-> 0]

(* The integer part of the pixel at column x and row y of array a.  The    *)
(* gaussian is light * exp(-r2 / (2 * sigma ** 2)) with sigma = 0.01 *     *)
(* max(w, h): below 1 off the centre for the sizes of this model.  The     *)
(* sawtooth is known where sin(th) * x + cos(th) * y is 0 for every phase.  *)
Intensity(a, x, y) ==
    CASE a.kind = "const" -> Known(a.p[1])
      [] a.kind = "noise" -> Known(a.p[1])
      [] a.kind = "gradient" ->
            IF (a.w - 1) + (a.h - 1) = 0 THEN Nan
            ELSE Known(a.dark + (a.light * (x + y)) \div ((a.w - 1) + (a.h - 1)))
      [] a.kind = "one_gaussian" ->
            IF <<x, y>> = a.p THEN Known(a.dark + a.light) ELSE Known(a.dark)
      [] a.kind = "sawtooth" ->
            IF Max(a.w - 1, a.h - 1) = 0 THEN Nan
            ELSE IF x = 0 /\ y = 0 THEN Known(a.dark)
            ELSE Unknown

(* What a cast of a float outside the range of an unsigned type gives is   *)
(* not defined by C: the builds in use wrap or saturate.                   *)
CastOutcomes == {"wrap", "saturate"}

(* .astype(d) of one pixel; a float keeps the value *)
astype(d, i, ub) ==
    IF ~i.known THEN i
    ELSE IF d = "float" THEN i
    ELSE IF i.nan THEN Known(0)
    ELSE IF 0 <= i.v /\ i.v <= iinfo_max(d) THEN i
    ELSE IF ub = "wrap" THEN Known(i.v % (iinfo_max(d) + 1))
    ELSE IF i.v < 0 THEN Known(0)
    ELSE Known(iinfo_max(d))

(* The pixels the font draws for the text, in the image of size            *)
(* text_size: some pixels inside the margin of 1.  The bitmaps of the font *)
(* are not part of the source; two stand for them.                         *)
InkMasks == {"dot", "block"}

Ink(mask, size, x, y) ==
    /\ 1 <= x /\ x < size[1] - 1
    /\ 1 <= y /\ y < size[2] - 1
    /\ mask = "dot" => (x = 1 /\ y = 1)

NoImage ==
    [raised |-> "", array |-> Failed(""), dtype |-> "", overlay |-> FALSE,
     index |-> NoIndex, ink |-> "", ub |-> ""]

(* The strategy m called by get_image, with the generator after the call;  *)
(* rnd holds what the call draws.                                          *)
strategy(g, m, w, h, dark, light, rnd) ==
    CASE m = "noise" -> [gen |-> g, array |-> noise(w, h, dark, light, rnd.v)]
      [] m = "gradient" -> [gen |-> g, array |-> gradient(w, h, dark, light)]
      [] m = "sawtooth" ->
            LET n == _theta_generator(g)
            IN [gen |-> n.gen, array |-> sawtooth(n.th, w, h, dark, light)]
      [] m = "one_gaussian" ->
            [gen |-> g,
             array |-> one_gaussian(w, h, dark, light, rnd.x0, rnd.y0)]
      [] m = "black" -> [gen |-> g, array |-> black(w, h, dark, light)]
      [] m = "white" -> [gen |-> g, array |-> white(g, w, h, dark, light)]

(* get_image with its pixels: the generator after the call and the image   *)
(* returned, or the error raised by the strategy or by the overlay.        *)
get_image_array(g, width, height, dark, light, index, rnd) ==
    LET m == Methods[g.method_index + 1]
        d == DataTypes[g.datatype_index + 1]
        s == strategy(g, m, width, height, dark, light, rnd)
        made == [raised |-> "", array |-> s.array, dtype |-> d,
                 overlay |-> FALSE, index |-> index, ink |-> "",
                 ub |-> rnd.ub]
    IN [gen |-> s.gen,
        img |-> IF s.array.raised # ""
                THEN [NoImage EXCEPT !.raised = s.array.raised]
                ELSE IF g.numbering /\ index # NoIndex
                THEN IF overlay_fits(width, height, text_size(index))
                     THEN [made EXCEPT !.overlay = TRUE, !.ink = rnd.ink]
                     ELSE [NoImage EXCEPT
                             !.raised = "ValueError: could not broadcast"]
                ELSE made]

(* Whether the overlay has overwritten the pixel at (x, y) of image f *)
InOverlay(f, x, y) ==
    /\ f.overlay
    /\ x < text_size(f.index)[1]
    /\ y < text_size(f.index)[2]

(* The pixel at column x and row y of the image f that get_image returned *)
FramePixel(f, x, y) ==
    IF InOverlay(f, x, y)
    THEN IF Ink(f.ink, text_size(f.index), x, y)
         THEN Known(f.array.light) ELSE Known(0)
    ELSE astype(f.dtype, Intensity(f.array, x, y), f.ub)

-----------------------------------------------------------------------------
(* TestCamera *)

(* Mutation: the guard lets every call through *)
must_be_initialized_unchecked(c) == TRUE

(* hasattr(self, "_initialized") and self._initialized *)
must_be_initialized(c) == c.initialized

initialize(c) == Return([c EXCEPT !.initialized = TRUE], "None")

abort(c) == IF c.acquiring THEN [c EXCEPT !.acquiring = FALSE] ELSE c

_do_disable(c) == abort(c)

(* _purge_buffers and the body of _create_buffers only log *)
_create_buffers(c) ==
    IF must_be_initialized(c) THEN Return(c, "None")
    ELSE Raise(c, "DisabledDeviceError")

(* Mutation: _do_enable without self._sent = 0 *)
_do_enable_numbering_kept(c) ==
    IF ~must_be_initialized(c) THEN Raise(c, "DisabledDeviceError")
    ELSE LET c1 == IF c.acquiring THEN abort(c) ELSE c
             b == _create_buffers(c1)
         IN IF b.result \in Errors THEN b
            ELSE Return([b.state EXCEPT !.acquiring = TRUE], "True")

_do_enable(c) ==
    IF ~must_be_initialized(c) THEN Raise(c, "DisabledDeviceError")
    ELSE LET c1 == IF c.acquiring THEN abort(c) ELSE c
             b == _create_buffers(c1)
         IN IF b.result \in Errors THEN b
            ELSE Return([b.state EXCEPT !.acquiring = TRUE, !.sent = 0], "True")

(* Mutation: _do_trigger without the test of self._acquiring *)
_do_trigger_always(c) == Return([c EXCEPT !.triggered = @ + 1], "None")

_do_trigger(c) ==
    IF c.acquiring THEN Return([c EXCEPT !.triggered = @ + 1], "None")
    ELSE Return(c, "None")

soft_trigger(c) ==
    IF must_be_initialized(c) THEN _do_trigger(c)
    ELSE Raise(c, "DisabledDeviceError")

(* random.randint(0, 100): both ends included *)
Draws == 0 .. 100

(* Mutation: the width divided by the vertical binning *)
frame_width_swapped(c) == c.roi.width \div c.binning.v

frame_width(c) == c.roi.width \div c.binning.h

frame_height(c) == c.roi.height \div c.binning.v

(* Mutation: the trigger is consumed before the failure is injected *)
raise_exception_consumed(c) ==
    Raise([c EXCEPT !.triggered = @ - 1], "DeviceError")

(* lines 282-285: the injected failure *)
raise_exception(c) == Raise(c, "DeviceError")

(* Mutation: send_image without self._sent += 1 *)
send_image_uncounted(c, g) ==
    LET c1 == [c EXCEPT !.triggered = @ - 1]
        image == get_image(g, frame_width(c1), frame_height(c1), c1.sent)
    IN IF image.raised THEN Raise(c1, "ValueError")
       ELSE [state |-> c1, result |-> "frame", frame |-> image.data]

(* Mutation: send_image without self._triggered -= 1 *)
send_image_unconsumed(c, g) ==
    LET image == get_image(g, frame_width(c), frame_height(c), c.sent)
    IN IF image.raised THEN Raise(c, "ValueError")
       ELSE [state |-> [c EXCEPT !.sent = @ + 1],
             result |-> "frame",
             frame |-> image.data]

(* lines 286-298: the trigger is consumed, then the image is made (which   *)
(* may raise), then the image is counted and returned.                     *)
send_image(c, g) ==
    LET c1 == [c EXCEPT !.triggered = @ - 1]
        image == get_image(g, frame_width(c1), frame_height(c1), c1.sent)
    IN IF image.raised THEN Raise(c1, "ValueError")
       ELSE [state |-> [c1 EXCEPT !.sent = @ + 1],
             result |-> "frame",
             frame |-> image.data]

(* Mutation: _fetch_data without the test of self._acquiring *)
_fetch_data_pending_only(c, g, draw) ==
    IF ~must_be_initialized(c) THEN Raise(c, "DisabledDeviceError")
    ELSE IF c.triggered > 0
         THEN IF draw < c.error_percent THEN raise_exception(c)
              ELSE send_image(c, g)
         ELSE Return(c, "None")

_fetch_data(c, g, draw) ==
    IF ~must_be_initialized(c) THEN Raise(c, "DisabledDeviceError")
    ELSE IF c.acquiring /\ c.triggered > 0
         THEN IF draw < c.error_percent THEN raise_exception(c)
              ELSE send_image(c, g)
         ELSE Return(c, "None")

trigger_mode == "ONCE"

trigger_type == "SOFTWARE"

(* Mutation: set_trigger without the test of tmode *)
set_trigger_type_only(c, ttype, tmode) ==
    IF ttype # "SOFTWARE" THEN Raise(c, "UnsupportedFeatureError")
    ELSE Return(c, "None")

set_trigger(c, ttype, tmode) ==
    IF ttype # "SOFTWARE" THEN Raise(c, "UnsupportedFeatureError")
    ELSE IF tmode # "ONCE" THEN Raise(c, "UnsupportedFeatureError")
    ELSE Return(c, "None")

_set_error_percent(c, value) ==
    Return([c EXCEPT !.error_percent = value, !.a_setting = value \div 10],
           "None")

(* The decorator keep_acquiring of microscope.abc: if the camera is        *)
(* acquiring, abort, apply the change, re-enable; else apply the change.   *)
(* applied is the decorated setter's effect on abort(c), which is c itself *)
(* when the camera is not acquiring.                                       *)
keep_acquiring(c, applied) ==
    IF c.acquiring
    THEN LET e == _do_enable(applied)
         IN IF e.result \in Errors THEN e ELSE Return(e.state, "None")
    ELSE Return(applied, "None")

_set_binning(c, binning) ==
    keep_acquiring(c, [abort(c) EXCEPT !.binning = binning])

(* Mutation: _set_roi assigns the binning attribute instead of the ROI *)
_set_roi_misassigned(c, roi) ==
    keep_acquiring(c, [abort(c) EXCEPT !.binning = roi])

_set_roi(c, roi) ==
    keep_acquiring(c, [abort(c) EXCEPT !.roi = roi])

-----------------------------------------------------------------------------
(* TestStageAxis and TestStage                                             *)
(*                                                                         *)
(* A position is a float: a number, Known(v), or Nan.  The limits are      *)
(* whole numbers with an even range, so that the midpoint is one too.      *)

(* a < b on floats: false when either is nan *)
FloatLess(a, b) == ~a.nan /\ ~b.nan /\ a.v < b.v

(* a + b on floats: nan when either is nan *)
FloatAdd(a, b) == IF a.nan \/ b.nan THEN Nan ELSE Known(a.v + b.v)

AxisLimits(lower, upper) == [lower |-> Known(lower), upper |-> Known(upper)]

(* TestStageAxis.__init__: the axis starts in the middle of its range *)
TestStageAxis(limits) ==
    [limits |-> limits,
     position |-> Known(limits.lower.v
                          + (limits.upper.v - limits.lower.v) \div 2)]

(* TestStageAxis.move_to *)
TestStageAxis_move_to(axis, pos) ==
    IF FloatLess(pos, axis.limits.lower)
    THEN [axis EXCEPT !.position = axis.limits.lower]
    ELSE IF FloatLess(axis.limits.upper, pos)
    THEN [axis EXCEPT !.position = axis.limits.upper]
    ELSE [axis EXCEPT !.position = pos]

(* TestStageAxis.move_by *)
TestStageAxis_move_by(axis, delta) ==
    TestStageAxis_move_to(axis, FloatAdd(axis.position, delta))

(* The stage before TestStage.__init__ *)
NoStage == <<>>

(* TestStage.__init__: one axis for each name of limits *)
TestStage(limits) == [name \in DOMAIN limits |-> TestStageAxis(limits[name])]

(* TestStage.move_by: the axes named in delta move, each by its own *)
TestStage_move_by(axes, delta) ==
    [name \in DOMAIN axes |->
        IF name \in DOMAIN delta
        THEN TestStageAxis_move_by(axes[name], delta[name])
        ELSE axes[name]]

(* TestStage.move_to: the axes named in position move, each to its own *)
TestStage_move_to(axes, position) ==
    [name \in DOMAIN axes |->
        IF name \in DOMAIN position
        THEN TestStageAxis_move_to(axes[name], position[name])
        ELSE axes[name]]

-----------------------------------------------------------------------------
(* TestLightSource; the power is counted in hundredths of the full power *)

(* TestLightSource.__init__ *)
TestLightSource == [power |-> 0, emission |-> FALSE]

TestLightSource_do_enable(l) ==
    [state |-> [l EXCEPT !.emission = TRUE], result |-> TRUE]

TestLightSource_do_disable(l) ==
    [state |-> [l EXCEPT !.emission = FALSE], result |-> FALSE]

get_is_on(l) == l.emission

_do_set_power(l, power) == [l EXCEPT !.power = power]

(* Mutation: _do_get_power without the test of self._emission *)
_do_get_power_unswitched(l) == l.power

_do_get_power(l) == IF l.emission THEN l.power ELSE 0

-----------------------------------------------------------------------------

(* History *)

(* Progress through the scenario enable, k >= 1 accepted triggers, disable, *)
(* enable, fetch, with no other call in between:                           *)
(*   1 armed, 2 armed and triggered, 3 disabled with triggers pending,     *)
(*   4 re-armed and not triggered since, 5 fetched right after; 0 else.    *)
ScnNext(op, before, r) ==
    CASE op = "enable" /\ r.result = "True" -> IF scn = 3 THEN 4 ELSE 1
      [] op \in {"trigger", "soft_trigger"} /\ before.acquiring
            /\ r.result = "None" /\ scn \in {1, 2, 4} -> 2
      [] op \in {"disable", "abort"} /\ scn = 2 -> 3
      [] op = "fetch" /\ scn = 4 -> 5
      [] OTHER -> 0

(* Frames returned since the camera was last armed, by enable or by the    *)
(* re-arming of a ROI or binning change.                                   *)
DeliveredNext(op, before, r) ==
    IF op = "enable" /\ r.result = "True" THEN 0
    ELSE IF op \in {"set_roi", "set_binning"} /\ before.acquiring THEN 0
    ELSE IF op = "fetch" /\ r.result = "frame" THEN delivered + 1
    ELSE delivered

(* What one call of method op with argument a and outcome r leaves *)
Record(op, a, r) ==
    /\ cam' = r.state
    /\ lastOp' = op
    /\ arg' = a
    /\ result' = r.result
    /\ frame' = r.frame
    /\ scn' = ScnNext(op, cam, r)
    /\ delivered' = DeliveredNext(op, cam, r)

(* One call by the host: method op with argument a and outcome r *)
Call(op, a, r) ==
    /\ Record(op, a, r)
    /\ UNCHANGED <<accepted, returned, thr, img, nsaw, stage, lightsource>>

-----------------------------------------------------------------------------
(* The state after construction: TestCamera.__init__, _ImageGenerator.__init__ *)

Init ==
    /\ cam = [initialized |-> FALSE,
              acquiring |-> FALSE,
              triggered |-> 0,
              sent |-> 0,
              error_percent |-> 0,
              a_setting |-> 0,
              roi |-> ROI(0, 0, 512, 512),
              binning |-> Binning(1, 1)]
    /\ gen = [numbering |-> TRUE,
              method_index |-> 0,
              datatype_index |-> 0,
              theta |-> 0]
    /\ lastOp = "__init__"
    /\ arg = NoArg
    /\ result = "None"
    /\ frame = NoFrame
    /\ scn = 0
    /\ delivered = 0
    /\ accepted = 0
    /\ returned = 0
    /\ thr = [t \in Threads |-> IdleThread]
    /\ img = NoImage
    /\ nsaw = 0
    /\ stage = NoStage
    /\ lightsource = TestLightSource

(* The host's calls *)

Initialize ==
    /\ Call("initialize", NoArg, initialize(cam))
    /\ UNCHANGED gen

Enable ==
    /\ Call("enable", NoArg, _do_enable(cam))
    /\ UNCHANGED gen

Disable ==
    /\ Call("disable", NoArg, Return(_do_disable(cam), "None"))
    /\ UNCHANGED gen

Abort ==
    /\ Call("abort", NoArg, Return(abort(cam), "None"))
    /\ UNCHANGED gen

Trigger ==
    /\ cam.acquiring => cam.triggered < MaxTriggered
    /\ Call("trigger", NoArg, _do_trigger(cam))
    /\ UNCHANGED gen

SoftTrigger ==
    /\ cam.acquiring => cam.triggered < MaxTriggered
    /\ Call("soft_trigger", NoArg, soft_trigger(cam))
    /\ UNCHANGED gen

Fetch ==
    \E draw \in Draws :
        LET r == _fetch_data(cam, gen, draw)
        IN /\ r.result = "frame" => cam.sent < MaxSent
           /\ Call("fetch", NoArg, r)
           /\ UNCHANGED gen

SetTrigger ==
    \E ttype \in TriggerTypes, tmode \in TriggerModes :
        /\ Call("set_trigger", <<ttype, tmode>>, set_trigger(cam, ttype, tmode))
        /\ UNCHANGED gen

SetBinning ==
    \E binning \in BinningInputs :
        /\ Call("set_binning", binning, _set_binning(cam, binning))
        /\ UNCHANGED gen

SetRoi ==
    \E roi \in RoiInputs :
        /\ Call("set_roi", roi, _set_roi(cam, roi))
        /\ UNCHANGED gen

SetErrorPercent ==
    \E value \in ErrorPercents :
        /\ Call("set_error_percent", value, _set_error_percent(cam, value))
        /\ UNCHANGED gen

EnableNumbering ==
    \E enab \in BOOLEAN :
        /\ gen' = enable_numbering(gen, enab)
        /\ Call("enable_numbering", enab, Return(cam, "None"))

Next ==
    \/ Initialize
    \/ Enable
    \/ Disable
    \/ Abort
    \/ Trigger
    \/ SoftTrigger
    \/ Fetch
    \/ SetTrigger
    \/ SetBinning
    \/ SetRoi
    \/ SetErrorPercent
    \/ EnableNumbering

Spec == Init /\ [][Next]_vars

-----------------------------------------------------------------------------
(* The calls that bear on the counts, with the triggers accepted and the   *)
(* frames returned counted over the whole life of the camera.              *)

Tally(op, a, r) ==
    /\ Record(op, a, r)
    /\ accepted' = IF op \in {"trigger", "soft_trigger"} /\ cam.acquiring
                         /\ r.result = "None"
                   THEN accepted + 1 ELSE accepted
    /\ returned' = IF r.result = "frame" THEN returned + 1 ELSE returned
    /\ UNCHANGED <<img, nsaw, stage, lightsource>>

Counted(op, a, r) ==
    /\ Tally(op, a, r)
    /\ UNCHANGED <<gen, thr>>

CountNext ==
    \/ Counted("initialize", NoArg, initialize(cam))
    \/ Counted("enable", NoArg, _do_enable(cam))
    \/ Counted("disable", NoArg, Return(_do_disable(cam), "None"))
    \/ /\ cam.acquiring => accepted < MaxAccepted
       /\ Counted("trigger", NoArg, _do_trigger(cam))
    \/ /\ cam.acquiring => accepted < MaxAccepted
       /\ Counted("soft_trigger", NoArg, soft_trigger(cam))
    \/ \E draw \in Draws : Counted("fetch", NoArg, _fetch_data(cam, gen, draw))
    \/ \E roi \in RoiInputs : Counted("set_roi", roi, _set_roi(cam, roi))
    \/ \E binning \in BinningInputs :
          Counted("set_binning", binning, _set_binning(cam, binning))
    \/ \E value \in ErrorPercents :
          Counted("set_error_percent", value, _set_error_percent(cam, value))
    \/ EnableNumbering

SpecCount == Init /\ [][CountNext]_vars

-----------------------------------------------------------------------------

(* A caller that keeps fetching.  FetchPass is a fetch of a pending        *)
(* trigger whose draw does not inject the failure; a caller that keeps     *)
(* calling fetch() draws such a value again and again (strong fairness).   *)

FetchPass ==
    \E draw \in Draws :
        LET r == _fetch_data(cam, gen, draw)
        IN /\ cam.initialized /\ cam.acquiring /\ cam.triggered > 0
           /\ draw >= cam.error_percent
           /\ r.result = "frame" => cam.sent < MaxSent
           /\ Call("fetch", NoArg, r)
           /\ UNCHANGED gen

LiveNext ==
    \/ Initialize
    \/ Enable
    \/ Disable
    \/ Trigger
    \/ Fetch
    \/ SetRoi
    \/ SetErrorPercent
    \/ EnableNumbering

SpecLive == Init /\ [][LiveNext]_vars /\ SF_vars(FetchPass)

-----------------------------------------------------------------------------

(* Threads in _fetch_data.  The source takes no lock, and time.sleep lets  *)
(* every other thread run; each statement after the sleep is one step.     *)

(* lines 278-286: the call goes on to the exposure delay *)
passes_check(c, draw) ==
    /\ must_be_initialized(c)
    /\ c.acquiring /\ c.triggered > 0
    /\ ~(draw < c.error_percent)

(* What a step inside _fetch_data leaves: no call has returned *)
Inside(step, t) ==
    /\ lastOp' = step
    /\ arg' = t
    /\ result' = "None"
    /\ frame' = NoFrame
    /\ UNCHANGED <<gen, scn, delivered, accepted, returned, img, nsaw,
                   stage, lightsource>>

(* lines 278-286: return None, raise, or start the exposure delay *)
FetchCheck(t) ==
    /\ thr[t].pc = "idle"
    /\ \E draw \in Draws :
          IF passes_check(cam, draw)
          THEN /\ thr' = [thr EXCEPT ![t].pc = "sleeping", ![t].aborted = FALSE]
               /\ Inside("sleep", t)
               /\ UNCHANGED cam
          ELSE /\ thr' = [thr EXCEPT ![t].aborted = FALSE]
               /\ Tally("fetch", t, _fetch_data(cam, gen, draw))
               /\ UNCHANGED gen

(* lines 287-288: the delay is over, self._triggered -= 1 *)
FetchWake(t) ==
    /\ thr[t].pc = "sleeping"
    /\ cam' = [cam EXCEPT !.triggered = @ - 1]
    /\ thr' = [thr EXCEPT ![t].pc = "consumed"]
    /\ Inside("consume", t)

(* lines 289-296: the image, with index = self._sent as it is now *)
FetchImage(t) ==
    /\ thr[t].pc = "consumed"
    /\ LET image == get_image(gen, frame_width(cam), frame_height(cam), cam.sent)
       IN IF image.raised
          THEN /\ thr' = [thr EXCEPT ![t].pc = "idle"]
               /\ Tally("fetch", t, Raise(cam, "ValueError"))
               /\ UNCHANGED gen
          ELSE /\ thr' = [thr EXCEPT ![t].pc = "imaged", ![t].image = image.data]
               /\ Inside("image", t)
               /\ UNCHANGED cam

(* lines 297-298: self._sent += 1, return image *)
FetchReturn(t) ==
    /\ thr[t].pc = "imaged"
    /\ thr' = [thr EXCEPT ![t].pc = "idle", ![t].image = NoFrame,
                          ![t].got = thr[t].image]
    /\ Tally("fetch", t, [state |-> [cam EXCEPT !.sent = @ + 1],
                          result |-> "frame",
                          frame |-> thr[t].image])
    /\ UNCHANGED gen

ConcInitialize ==
    /\ Tally("initialize", NoArg, initialize(cam))
    /\ UNCHANGED <<gen, thr>>

ConcEnable ==
    LET r == _do_enable(cam)
    IN /\ Tally("enable", NoArg, r)
       /\ thr' = IF r.result = "True"
                 THEN [t \in Threads |-> [thr[t] EXCEPT !.got = NoFrame]]
                 ELSE thr
       /\ UNCHANGED gen

ConcAbort ==
    /\ Tally("abort", NoArg, Return(abort(cam), "None"))
    /\ thr' = [t \in Threads |->
                 IF thr[t].pc = "sleeping"
                 THEN [thr[t] EXCEPT !.aborted = TRUE] ELSE thr[t]]
    /\ UNCHANGED gen

ConcTrigger ==
    /\ cam.acquiring => accepted < MaxAccepted
    /\ Tally("trigger", NoArg, _do_trigger(cam))
    /\ UNCHANGED <<gen, thr>>

ConcNext ==
    \/ ConcInitialize
    \/ ConcEnable
    \/ ConcAbort
    \/ ConcTrigger
    \/ \E t \in Threads : FetchCheck(t)
    \/ \E t \in Threads : FetchWake(t)
    \/ \E t \in Threads : FetchImage(t)
    \/ \E t \in Threads : FetchReturn(t)

SpecConc == Init /\ [][ConcNext]_vars

-----------------------------------------------------------------------------

(* The generator called directly, as the settings of the camera and the   *)
(* sequencer call it.                                                      *)

GenShapes == {<<1, 1>>, <<2, 3>>, <<9, 14>>}
GenDarks == {0, 31, 255}
GenLights == {128, 255}
GenIndexes == {NoIndex, 0}

(* One call on the generator with result r: the camera is left alone *)
GenCall(op, a, r) ==
    /\ lastOp' = op
    /\ arg' = a
    /\ result' = r
    /\ frame' = NoFrame
    /\ UNCHANGED <<cam, scn, delivered, accepted, returned, thr, stage, lightsource>>

SetMethod ==
    \E index \in 0 .. Len(Methods) - 1 :
        /\ gen' = set_method(gen, index)
        /\ img' = NoImage
        /\ GenCall("set_method", index, "None")
        /\ UNCHANGED nsaw

SetDataType ==
    \E index \in 0 .. Len(DataTypes) - 1 :
        /\ gen' = set_data_type(gen, index)
        /\ img' = NoImage
        /\ GenCall("set_data_type", index, "None")
        /\ UNCHANGED nsaw

SetNumbering ==
    \E enab \in BOOLEAN :
        /\ gen' = enable_numbering(gen, enab)
        /\ img' = NoImage
        /\ GenCall("enable_numbering", enab, "None")
        /\ UNCHANGED nsaw

(* What get_image leaves: the generator after it, the image or the error, *)
(* and one more sawtooth call if that is the strategy selected.            *)
Generated(a, r) ==
    /\ gen' = r.gen
    /\ img' = r.img
    /\ nsaw' = IF Methods[gen.method_index + 1] = "sawtooth"
               THEN nsaw + 1 ELSE nsaw
    /\ GenCall("get_image", a,
               IF r.img.raised = "" THEN "image" ELSE "ValueError")

GetImage ==
    \E shape \in GenShapes, dark \in GenDarks, light \in GenLights,
       index \in GenIndexes, ub \in CastOutcomes, ink \in InkMasks,
       first \in BOOLEAN :
        LET w == shape[1]
            h == shape[2]
            rnd == [v |-> IF first THEN dark ELSE Max(dark, light - 1),
                    x0 |-> IF first THEN 0 ELSE w - 1,
                    y0 |-> IF first THEN 0 ELSE h - 1,
                    ink |-> ink,
                    ub |-> ub]
        IN /\ Methods[gen.method_index + 1] = "sawtooth" => nsaw < MaxPhase
           /\ Generated(<<w, h, dark, light, index>>,
                        get_image_array(gen, w, h, dark, light, index, rnd))

GenNext ==
    \/ SetMethod
    \/ SetDataType
    \/ SetNumbering
    \/ GetImage

SpecGen == Init /\ [][GenNext]_vars

-----------------------------------------------------------------------------

(* The phase of the sawtooth followed through a full turn: get_image with  *)
(* its default dark, light and index, between changes of the settings and  *)
(* enable and disable of the camera.                                       *)
GetImageDefault ==
    \E shape \in {<<2, 3>>} :
        LET w == shape[1]
            h == shape[2]
            rnd == [v |-> 0, x0 |-> 0, y0 |-> 0, ink |-> "dot", ub |-> "wrap"]
        IN /\ Methods[gen.method_index + 1] = "sawtooth" => nsaw < MaxCalls
           /\ Generated(<<w, h>>,
                        get_image_array(gen, w, h, 0, 255, NoIndex, rnd))

ThetaNext ==
    \/ SetMethod
    \/ SetDataType
    \/ GetImageDefault
    \/ Initialize
    \/ Enable
    \/ Disable

SpecTheta == Init /\ [][ThetaNext]_vars

-----------------------------------------------------------------------------

(* The stage: made once, then moved by the host *)

Axes == {"X", "Y"}
LimitsInputs == {AxisLimits(0, 4), AxisLimits(-4, 6), AxisLimits(2, 2)}
Targets == {Known(-6), Known(1), Known(3), Known(8), Nan}
Deltas == {Known(-2), Known(1), Nan}

(* The mappings from some of the axes to values of S *)
Mappings(S) == UNION {[names -> S] : names \in SUBSET Axes}

(* One call on the stage or on the light source with result r: the camera *)
(* and the generator are left alone                                        *)
DeviceCall(op, a, r) ==
    /\ lastOp' = op
    /\ arg' = a
    /\ result' = r
    /\ frame' = NoFrame
    /\ UNCHANGED <<cam, gen, scn, delivered, accepted, returned, thr, img, nsaw>>

NewStage ==
    \E limits \in [Axes -> LimitsInputs] :
        /\ stage = NoStage
        /\ stage' = TestStage(limits)
        /\ DeviceCall("TestStage", limits, "None")
        /\ UNCHANGED lightsource

StageMoveTo ==
    \E position \in Mappings(Targets) :
        /\ stage # NoStage
        /\ stage' = TestStage_move_to(stage, position)
        /\ DeviceCall("move_to", position, "None")
        /\ UNCHANGED lightsource

StageMoveBy ==
    \E delta \in Mappings(Deltas) :
        /\ stage # NoStage
        /\ stage' = TestStage_move_by(stage, delta)
        /\ DeviceCall("move_by", delta, "None")
        /\ UNCHANGED lightsource

StageNext ==
    \/ NewStage
    \/ StageMoveTo
    \/ StageMoveBy

SpecStage == Init /\ [][StageNext]_vars

-----------------------------------------------------------------------------

(* The light source, switched and set by the host *)

Powers == {0, 1, 5, 10, 20, 25, 30, 40, 50, 60, 70, 75, 80, 90, 100}

LightEnable ==
    LET r == TestLightSource_do_enable(lightsource)
    IN /\ lightsource' = r.state
       /\ DeviceCall("_do_enable", NoArg, r.result)
       /\ UNCHANGED stage

LightDisable ==
    LET r == TestLightSource_do_disable(lightsource)
    IN /\ lightsource' = r.state
       /\ DeviceCall("_do_disable", NoArg, r.result)
       /\ UNCHANGED stage

SetPower ==
    \E power \in Powers :
        /\ lightsource' = _do_set_power(lightsource, power)
        /\ DeviceCall("_do_set_power", power, "None")
        /\ UNCHANGED stage

GetPower ==
    /\ DeviceCall("_do_get_power", NoArg, _do_get_power(lightsource))
    /\ UNCHANGED <<lightsource, stage>>

GetIsOn ==
    /\ DeviceCall("get_is_on", NoArg, get_is_on(lightsource))
    /\ UNCHANGED <<lightsource, stage>>

LightNext ==
    \/ LightEnable
    \/ LightDisable
    \/ SetPower
    \/ GetPower
    \/ GetIsOn

SpecLight == Init /\ [][LightNext]_vars

-----------------------------------------------------------------------------

(* Properties *)

Fetchable(c) == c.initialized /\ c.acquiring /\ c.triggered > 0

SequencerState(c) == <<c.acquiring, c.triggered, c.sent>>

(* C1: disable()/abort() discards pending triggers: after enable, k >= 1   *)
(* triggers, disable, enable and a fetch (no trigger after the re-enable), *)
(* the fetch returns no frame.                                             *)
C1_DisableDiscardsPending == scn = 5 => result # "frame"

(* C2: right after a successful enable() the camera is acquiring, with     *)
(* frames_sent = 0 and pending_triggers = 0, whatever the state before.    *)
C2_EnableResetsState ==
    (lastOp = "enable" /\ result = "True")
        => (cam.acquiring /\ cam.sent = 0 /\ cam.triggered = 0)

(* C3: a fetch() that fails with the injected acquisition error leaves     *)
(* pending_triggers, frames_sent and acquiring as they were, so that the   *)
(* same trigger can still be fetched.                                      *)
C3_FailedFetchKeepsState ==
    [][(lastOp' = "fetch" /\ result' = "DeviceError")
          => /\ SequencerState(cam') = SequencerState(cam)
             /\ Fetchable(cam')]_vars

C3_Witness ==
    lastOp = "fetch" /\ result = "DeviceError" /\ cam.triggered > 0 /\ cam.sent > 0

(* C4: the draw is compared with error_rate_percent so that at 100 every   *)
(* fetch() made while acquiring with a pending trigger raises the          *)
(* acquisition error, and at 0 none does.                                  *)
C4_ErrorRateDecides ==
    [][(lastOp' = "fetch" /\ Fetchable(cam))
          => /\ cam.error_percent = 100 => result' = "DeviceError"
             /\ cam.error_percent = 0 => result' # "DeviceError"]_vars

(* C5: a successful fetch() takes one pending trigger, gives the frame the *)
(* index frames_sent and then adds one to frames_sent; the frames returned *)
(* since the camera was armed carry the indices 0, 1, 2, ...; frames_sent  *)
(* decreases only when the camera is armed again.                          *)
C5_FetchCounts ==
    [][/\ (lastOp' = "fetch" /\ result' = "frame")
            => /\ cam'.triggered = cam.triggered - 1
               /\ frame'.index = cam.sent
               /\ cam'.sent = cam.sent + 1
               /\ frame'.index = delivered
       /\ cam'.sent < cam.sent
            => lastOp' \in {"enable", "set_roi", "set_binning"}]_vars

C5_Witness == lastOp = "fetch" /\ result = "frame" /\ frame.index = 2

(* C6: trigger() on a camera that is not acquiring changes nothing, and a  *)
(* fetch() right after it returns no frame.                                *)
C6_IdleTriggerNoEffect ==
    [][/\ (lastOp' \in {"trigger", "soft_trigger"} /\ ~cam.acquiring)
            => cam' = cam
       /\ (lastOp = "trigger" /\ ~cam.acquiring /\ lastOp' = "fetch")
            => /\ result' # "frame"
               /\ cam.initialized => result' = "None"
               /\ cam' = cam]_vars

C6_Witness ==
    lastOp = "trigger" /\ cam.initialized /\ ~cam.acquiring /\ cam.triggered = 1

(* C7: fetch(), enable() and soft_trigger() on a camera that was never     *)
(* initialized fail with the device-not-initialized error and change       *)
(* nothing; once initialized they do not fail with that error.             *)
C7_NotInitializedFails ==
    [][lastOp' \in {"fetch", "enable", "soft_trigger"}
          => IF cam.initialized
             THEN result' # "DisabledDeviceError"
             ELSE result' = "DisabledDeviceError" /\ cam' = cam]_vars

C7_Witness ==
    lastOp = "enable" /\ result = "DisabledDeviceError" /\ ~cam.initialized

(* C8: set_trigger(type, mode) fails with the unsupported-configuration    *)
(* error unless called with (SOFTWARE, ONCE), changes no state either way, *)
(* and trigger_type and trigger_mode always read SOFTWARE and ONCE.        *)
C8_SetTriggerSoftwareOnce ==
    [][lastOp' = "set_trigger"
          => /\ result' = IF arg' = <<"SOFTWARE", "ONCE">>
                          THEN "None" ELSE "UnsupportedFeatureError"
             /\ cam' = cam
             /\ gen' = gen
             /\ trigger_type = "SOFTWARE"
             /\ trigger_mode = "ONCE"]_vars

C8_Witness ==
    /\ lastOp = "set_trigger"
    /\ arg = <<"SOFTWARE", "BULB">>
    /\ result = "UnsupportedFeatureError"

(* C9: a change of the ROI or of the binning keeps the camera acquiring if *)
(* it was, idle if it was, and stores the new value.                       *)
C9_KeepAcquiring ==
    [][/\ lastOp' = "set_roi"
            => /\ cam'.acquiring = cam.acquiring
               /\ cam'.roi = arg'
               /\ result' = "None"
       /\ lastOp' = "set_binning"
            => /\ cam'.acquiring = cam.acquiring
               /\ cam'.binning = arg'
               /\ result' = "None"]_vars

C9_Witness ==
    lastOp = "set_roi" /\ cam.acquiring /\ cam.roi = ROI(0, 0, 7, 512)

(* C10: the frame a successful fetch() returns is floor(ROI.width /        *)
(* binning.h) wide and floor(ROI.height / binning.v) high, for the ROI and *)
(* binning in force at the fetch.                                          *)
C10_FrameShape ==
    result = "frame"
        => /\ frame.width = cam.roi.width \div cam.binning.h
           /\ frame.height = cam.roi.height \div cam.binning.v
           /\ frame.width * cam.binning.h <= cam.roi.width
           /\ cam.roi.width < (frame.width + 1) * cam.binning.h
           /\ frame.height * cam.binning.v <= cam.roi.height
           /\ cam.roi.height < (frame.height + 1) * cam.binning.v

C10_Witness ==
    /\ result = "frame"
    /\ cam.roi = ROI(0, 0, 512, 512)
    /\ cam.binning = Binning(2, 2)
    /\ frame.width = 256
    /\ frame.height = 256

Sleeping == {t \in Threads : thr[t].pc = "sleeping"}

(* C11: when abort() runs while a fetch() is in its exposure delay, that   *)
(* fetch still completes and returns its frame (one trigger consumed,      *)
(* frames_sent advanced), and every trigger queued but not yet fetched is  *)
(* discarded by the abort.                                                 *)
C11_AbortDuringExposure ==
    [][/\ (lastOp' = "abort" /\ Sleeping # {})
            => cam'.triggered <= Cardinality(Sleeping)
       /\ (lastOp' = "consume" /\ thr[arg'].aborted)
            => cam'.triggered = cam.triggered - 1
       /\ (lastOp' = "fetch" /\ thr[arg'].pc # "idle" /\ thr[arg'].aborted)
            => /\ result' = "frame"
               /\ cam'.sent = cam.sent + 1]_vars

(* The last call was get_image(width, height, dark, light, index) *)
GotImage == lastOp = "get_image" /\ Len(arg) = 5

Selected(m) == Methods[gen.method_index + 1] = m

(* The pixels of image f, as <<column, row>> *)
Pixels(f) == (0 .. f.array.w - 1) \X (0 .. f.array.h - 1)

(* C12: get_image raises nothing when width >= 1 and height >= 1, for      *)
(* every strategy, every output type and numbering on or off, also for     *)
(* frames smaller than the number drawn on them and for 1x1 frames (here   *)
(* with dark < light).                                                     *)
C12_GetImageNeverRaises ==
    (GotImage /\ arg[1] >= 1 /\ arg[2] >= 1 /\ arg[3] < arg[4])
        => result = "image"

(* C13: no strategy fails when called with dark > light or dark = light:   *)
(* each still returns an array.                                            *)
C13_DarkNotBelowLight ==
    (GotImage /\ arg[3] >= arg[4]) => img.raised # "ValueError: low >= high"

(* C14: for dark in [0,32) and light in (127,255], every pixel of a frame  *)
(* cast to an unsigned type equals the integer part of the intensity the   *)
(* strategy computed: nothing negative, nothing wrapped.  Judged on the    *)
(* pixels the overlay has not overwritten and whose intensity is a number  *)
(* the model computes.                                                     *)
C14_UnsignedCastExact ==
    (/\ GotImage /\ result = "image"
     /\ img.dtype \in {"uint8", "uint16"}
     /\ 0 <= arg[3] /\ arg[3] < 32 /\ 127 < arg[4] /\ arg[4] <= 255)
        => \A p \in Pixels(img) :
              LET i == Intensity(img.array, p[1], p[2])
              IN (~InOverlay(img, p[1], p[2]) /\ i.known /\ ~i.nan)
                    => FramePixel(img, p[1], p[2]) = i

(* C15, as stated: with black selected the frame get_image returns is all  *)
(* zeros, for every dark, light, output type and index, numbering on       *)
(* included.                                                               *)
C15_BlackAllZeros ==
    (GotImage /\ result = "image" /\ Selected("black"))
        => \A p \in Pixels(img) : FramePixel(img, p[1], p[2]) = Known(0)

(* C15, amended: with black selected the array of the strategy is all      *)
(* zeros for every dark, light and output type, and so is every pixel of   *)
(* the frame outside the number drawn on it; a pixel inside the box of the *)
(* number is 0 or light.  Without numbering or without an index the frame  *)
(* is all zeros.                                                           *)
C15_BlackZeroOutsideNumber ==
    (GotImage /\ result = "image" /\ Selected("black"))
        => \A p \in Pixels(img) :
              /\ Intensity(img.array, p[1], p[2]) = Known(0)
              /\ ~InOverlay(img, p[1], p[2])
                    => FramePixel(img, p[1], p[2]) = Known(0)
              /\ InOverlay(img, p[1], p[2])
                    => FramePixel(img, p[1], p[2]).v \in {0, arg[4]}

C15_Witness ==
    /\ GotImage /\ result = "image" /\ Selected("black")
    /\ img.overlay /\ img.dtype = "uint16" /\ arg[3] = 31
    /\ \E p \in Pixels(img) : FramePixel(img, p[1], p[2]) = Known(arg[4])
    /\ \E p \in Pixels(img) : ~InOverlay(img, p[1], p[2])

(* C16: the phase of the sawtooth belongs to the generator: the n-th       *)
(* sawtooth call, n = 0, 1, 2, ..., uses step n mod 100 of 0.01 * 2 * pi,  *)
(* each sawtooth call advances the phase by one step, and no other call    *)
(* changes it: not another strategy, not a change of the output type, not  *)
(* enable or disable of the camera.                                        *)
C16_SawtoothPhase ==
    [][IF lastOp' = "get_image" /\ Selected("sawtooth")
       THEN /\ img'.array.kind = "sawtooth"
            /\ img'.array.p = <<nsaw % ThetaSteps>>
            /\ gen'.theta = (gen.theta + 1) % ThetaSteps
       ELSE gen'.theta = gen.theta]_vars

C16_Witness ==
    /\ lastOp = "disable" /\ nsaw = ThetaSteps + 1
    /\ img.array.kind = "sawtooth" /\ img.array.p = <<0>>
    /\ gen.theta = 1 /\ gen.datatype_index = 2

(* C17: fetch() on an initialized camera that is not acquiring or has no   *)
(* pending trigger returns nothing, raises nothing whatever the error     *)
(* rate, and changes no state.                                             *)
C17_IdleFetchNoop ==
    [][(lastOp' = "fetch" /\ cam.initialized
            /\ ~(cam.acquiring /\ cam.triggered > 0))
          => /\ result' = "None"
             /\ frame' = NoFrame
             /\ cam' = cam]_vars

C17_Witness ==
    /\ lastOp = "fetch"
    /\ result = "None"
    /\ ~cam.acquiring
    /\ cam.triggered > 0
    /\ cam.error_percent = 100

(* C18: with the calls serialized, pending_triggers and frames_sent are    *)
(* never negative and the frames returned never outnumber the triggers    *)
(* accepted while acquiring.                                               *)
C18_FramesWithinTriggers ==
    /\ cam.triggered >= 0
    /\ cam.sent >= 0
    /\ returned <= accepted

C18_Witness ==
    lastOp = "fetch" /\ result = "frame" /\ returned = 2 /\ accepted = 2

(* C20: while the camera stays acquiring with a trigger pending and an    *)
(* error rate below 100, a caller that keeps calling fetch() eventually    *)
(* gets a frame: every accepted trigger is eventually delivered.           *)
C20_RetryDelivers ==
    (/\ cam.initialized /\ cam.acquiring /\ cam.triggered > 0
     /\ cam.error_percent < 100
     /\ cam.sent < MaxSent)
        ~> (\/ lastOp = "fetch" /\ result = "frame"
            \/ ~cam.acquiring)

(* C19: two callers of fetch() on one camera with one pending trigger do  *)
(* not both get a frame, pending_triggers never becomes negative and no    *)
(* two frames carry the same index.                                        *)
C19_ConcurrentFetchExclusive ==
    /\ cam.triggered >= 0
    /\ returned <= accepted
    /\ \A t1, t2 \in Threads :
          (t1 # t2 /\ thr[t1].got # NoFrame)
              => thr[t1].got.index # thr[t2].got.index

(* C21: a change of the ROI or of the binning on an acquiring camera       *)
(* restarts the numbering of the frames: frames_sent is 0 after it and the *)
(* next frame delivered has index 0; on an idle camera the change leaves   *)
(* frames_sent as it was.                                                  *)
C21_ChangeRestartsNumbering ==
    [][/\ (lastOp' \in {"set_roi", "set_binning"} /\ cam.acquiring)
            => /\ cam'.sent = 0
               /\ delivered' = 0
       /\ (lastOp' \in {"set_roi", "set_binning"} /\ ~cam.acquiring)
            => cam'.sent = cam.sent
       /\ (lastOp' = "fetch" /\ result' = "frame" /\ delivered = 0)
            => frame'.index = 0]_vars

C21_Witness ==
    /\ lastOp = "set_binning" /\ cam.acquiring
    /\ returned = 2 /\ accepted = 3
    /\ cam.sent = 0 /\ cam.triggered = 1

(* C22: an acquiring camera has been initialized, in every reachable       *)
(* state; the camera starts acquiring only by an enable that succeeds on   *)
(* an initialized camera, and triggers are added only while it acquires,   *)
(* so pending_triggers is non-zero only on a camera that has been          *)
(* initialized and enabled.                                                *)
C22_AcquiringIsInitialized ==
    [][/\ cam.acquiring => cam.initialized
       /\ cam'.acquiring => cam'.initialized
       /\ (~cam.acquiring /\ cam'.acquiring)
            => /\ lastOp' = "enable" /\ result' = "True"
               /\ cam.initialized
       /\ cam'.triggered > cam.triggered
            => /\ cam.acquiring /\ cam.initialized
               /\ lastOp' \in {"trigger", "soft_trigger"}
       /\ cam.triggered # 0 => cam.initialized
       /\ cam.initialized => cam'.initialized]_vars

C22_Witness ==
    /\ lastOp = "disable" /\ ~cam.acquiring
    /\ cam.initialized /\ cam.triggered = 2

(* The float v lies within the limits of the axis *)
WithinLimits(axis, v) ==
    /\ ~v.nan
    /\ axis.limits.lower.v <= v.v
    /\ v.v <= axis.limits.upper.v

(* C23: an axis with limits lower <= upper starts at the midpoint of its   *)
(* range; after any move_to and move_by its position is within the limits; *)
(* a move_to to a target within the limits reaches the target, one below   *)
(* lower or above upper ends at lower or upper; the limits never change.   *)
C23_AxisWithinLimits ==
    [][/\ lastOp' = "TestStage"
            => \A name \in Axes :
                  /\ stage'[name].limits = arg'[name]
                  /\ 2 * stage'[name].position.v
                        = arg'[name].lower.v + arg'[name].upper.v
       /\ lastOp' \in {"TestStage", "move_to", "move_by"}
            => \A name \in Axes :
                  WithinLimits(stage'[name], stage'[name].position)
       /\ lastOp' = "move_to"
            => \A name \in DOMAIN arg' :
                  LET axis == stage[name]
                      pos == arg'[name]
                  IN stage'[name].position =
                        IF WithinLimits(axis, pos) THEN pos
                        ELSE IF FloatLess(pos, axis.limits.lower)
                        THEN axis.limits.lower
                        ELSE axis.limits.upper
       /\ lastOp' \in {"move_to", "move_by"}
            => \A name \in Axes :
                  /\ stage'[name].limits = stage[name].limits
                  /\ name \notin DOMAIN arg' => stage'[name] = stage[name]]_vars

(* C24: the power the light source reports is 0 while the emission is off  *)
(* and the power set last while it is on; setting the power leaves the     *)
(* emission flag as it is, and enable and disable leave the stored power.  *)
C24_PowerFollowsEmission ==
    [][/\ lastOp' = "_do_get_power"
            => /\ result' = IF lightsource.emission
                            THEN lightsource.power ELSE 0
               /\ lightsource' = lightsource
       /\ lastOp' = "_do_set_power"
            => /\ lightsource'.power = arg'
               /\ lightsource'.emission = lightsource.emission
       /\ lastOp' = "_do_enable"
            => /\ lightsource'.emission
               /\ lightsource'.power = lightsource.power
       /\ lastOp' = "_do_disable"
            => /\ ~lightsource'.emission
               /\ lightsource'.power = lightsource.power
       /\ lastOp' = "get_is_on"
            => /\ result' = lightsource.emission
               /\ lightsource' = lightsource]_vars

C24_Witness ==
    /\ lastOp = "_do_get_power" /\ result = 0
    /\ ~lightsource.emission /\ lightsource.power = 75

=============================================================================
